---- MODULE Spec2Model ----
(***************************************************************************)
(* Model of src/app.py: the CSV SQL chatbot (Streamlit + DuckDB + Groq).   *)
(*                                                                         *)
(* Streamlit reruns the whole script on every user interaction, so every   *)
(* interaction starts by executing lines 29-43 (read the uploaded file,    *)
(* create the table `data`, compute `columns`).  The Run Query handler     *)
(* (lines 129-141) is split at its outbound calls: each llm.invoke and     *)
(* each con.execute is one step whose outcome (a value or an exception)    *)
(* is chosen by the collaborator.                                          *)
(*                                                                         *)
(* Text is modelled as a sequence of tokens; the tokens " ", "\n" and "\t" *)
(* are whitespace.  An optional value is a sequence of length 0 or 1.      *)
(***************************************************************************)
EXTENDS Integers, Sequences, FiniteSets, TLC

VARIABLES
    uploaded,    \* st.file_uploader widget value: <<>> or <<dataset>>
    previous,    \* history: the dataset the widget held before the current one
    columns,     \* list(df.columns); <<>> while the name is unbound
    table,       \* the DuckDB table `data` of connection `con`
    pc,          \* position of the script / of the query-answering cycle
    question,    \* user_question
    sql,         \* local `sql` of the handler / of execute_with_retry
    attempt,     \* loop variable of execute_with_retry
    retries,     \* parameter `retries` of execute_with_retry
    e,           \* exception bound by `except Exception as e` (line 108)
    calls,       \* history: outbound calls of the current script run, in order
    spent,       \* history: failed executions of the last finished cycle
    ui           \* what the current script run has displayed

vars == <<uploaded, previous, columns, table, pc, question, sql, attempt,
          retries, e, calls, spent, ui>>

----------------------------------------------------------------------------
(* Bounds *)

\* largest `retries` argument tried for execute_with_retry
MaxRetries == 3

----------------------------------------------------------------------------
(* Program constants *)

DefaultRetries == 2

FailurePrefix == "Failed to execute query: "

----------------------------------------------------------------------------
(* Input domains *)

Whitespace == {" ", "\n", "\t"}

DatasetA ==
    [columns |-> <<"region", "sales">>,
     rows    |-> << <<"A", "10">>, <<"B", "20">>, <<"A", "5">> >>]

DatasetB ==
    [columns |-> <<"sales", "region", "year">>,
     rows    |-> << <<"7", "C", "2024">> >>]

DatasetC ==
    [columns |-> <<"id">>,
     rows    |-> << <<"1">>, <<"2">> >>]

Datasets == {DatasetA, DatasetB, DatasetC}

Questions == {"", "total sales by region"}

SelectRegion == "SELECT region FROM data"
SelectRegoin == "SELECT regoin FROM data"
SelectCount  == "SELECT COUNT(*) FROM data"
SelectYear   == "SELECT year FROM data"
Selec        == "SELEC * FROM data"
DeleteAll    == "DELETE FROM data"

\* Raw texts the language model may answer with (AIMessage.content).
ModelResponses ==
    { <<SelectRegion>>,
      <<"\n", SelectRegoin, " ">>,
      <<" ", SelectCount>>,
      <<SelectYear, "\n">>,
      <<Selec>>,
      <<DeleteAll>>,
      <<DeleteAll, ";", SelectRegoin, "\n">> }

\* Messages of the exceptions llm.invoke may raise.
ModelErrors == {<<"Connection error.">>, <<"Rate limit reached", " ">>}

----------------------------------------------------------------------------
(* Pure helpers *)

RECURSIVE LStrip(_)
LStrip(s) ==
    IF s # <<>> /\ Head(s) \in Whitespace THEN LStrip(Tail(s)) ELSE s

RECURSIVE RStrip(_)
RStrip(s) ==
    IF s # <<>> /\ s[Len(s)] \in Whitespace
    THEN RStrip(SubSeq(s, 1, Len(s) - 1))
    ELSE s

\* str.strip()
Strip(s) == RStrip(LStrip(s))

\* str.replace("", ""): every empty substring replaced by the empty string.
ReplaceEmpty(s) == s

\* variant: lstrip() in place of strip()
CleanResponseLeftOnly(content) == ReplaceEmpty(LStrip(content))

\* .content.strip().replace("", "")
CleanResponse(content) == ReplaceEmpty(Strip(content))

\* ", ".join(columns)
RECURSIVE Join(_)
Join(cols) ==
    IF cols = <<>> THEN <<>>
    ELSE IF Len(cols) = 1 THEN cols
    ELSE <<Head(cols), ", ">> \o Join(Tail(cols))

\* sql_prompt.format(question=..., columns=...)
SqlPromptFormat(q, cols) ==
    [template |-> "sql_prompt", question |-> q, sql |-> <<>>, error |-> <<>>,
     columns |-> cols]

\* str(e)
Str(exc) == exc.msg

\* fix_prompt.format(sql=sql, error=str(e), columns=", ".join(columns))
FixPromptFormat(s, err, cols) ==
    [template |-> "fix_prompt", question |-> "", sql |-> s, error |-> err,
     columns |-> cols]

\* variant: the prompt gets only the first line of the error
BuildFixPromptSummary(s, exc, cols) ==
    FixPromptFormat(s, <<Head(Str(exc))>>, Join(cols))

BuildFixPrompt(s, exc, cols) == FixPromptFormat(s, Str(exc), Join(cols))

\* variant: the message also quotes the candidate being executed
FailureMessageWithSql(exc) == <<FailurePrefix>> \o sql \o Str(exc)

\* f"Failed to execute query: {e}"
FailureMessage(exc) == <<FailurePrefix>> \o Str(exc)

----------------------------------------------------------------------------
(* The query engine (DuckDB connection `con`, table `data`) *)

NoTable == [columns |-> <<>>, rows |-> <<>>]

\* variant: CREATE TABLE IF NOT EXISTS on a connection that is kept
CreateTableIfNotExists(df) ==
    IF table = NoTable
    THEN [columns |-> df.columns, rows |-> df.rows]
    ELSE table

\* CREATE OR REPLACE TABLE data AS SELECT * FROM df
CreateTable(df) == [columns |-> df.columns, rows |-> df.rows]

\* variant: the column list is computed once and kept across uploads
ListColumnsStale(df) == IF columns # <<>> THEN columns ELSE df.columns

\* list(df.columns)
ListColumns(df) == df.columns

Digits == <<"0", "1", "2", "3", "4">>

ToStr(n) == Digits[n + 1]

HasColumn(tbl, col) == \E i \in 1..Len(tbl.columns) : tbl.columns[i] = col

ColumnIndex(tbl, col) ==
    CHOOSE i \in 1..Len(tbl.columns) : tbl.columns[i] = col

Project(tbl, col) ==
    [r \in 1..Len(tbl.rows) |-> <<tbl.rows[r][ColumnIndex(tbl, col)]>>]

SelectColumn(tbl, col) ==
    IF HasColumn(tbl, col)
    THEN [ok |-> TRUE, rows |-> Project(tbl, col), error |-> <<>>,
          table |-> tbl]
    ELSE [ok |-> FALSE, rows |-> <<>>,
          error |-> <<"Binder Error: Referenced column not found: ", col>>,
          table |-> tbl]

\* one statement run by the connection; `table` is the table `data` after it
Statement(tbl, s) ==
    IF s = <<SelectCount>>
    THEN [ok |-> TRUE, rows |-> << <<ToStr(Len(tbl.rows))>> >>, error |-> <<>>,
          table |-> tbl]
    ELSE IF s = <<SelectRegion>> THEN SelectColumn(tbl, "region")
    ELSE IF s = <<SelectRegoin>> THEN SelectColumn(tbl, "regoin")
    ELSE IF s = <<SelectYear>> THEN SelectColumn(tbl, "year")
    ELSE IF s = <<DeleteAll>>
    THEN [ok |-> TRUE, rows |-> << <<ToStr(Len(tbl.rows))>> >>, error |-> <<>>,
          table |-> [tbl EXCEPT !.rows = <<>>]]
    ELSE [ok |-> FALSE, rows |-> <<>>,
          error |-> <<"Parser Error: syntax error at or near ">> \o s,
          table |-> tbl]

HasSeparator(s) == \E k \in 1..Len(s) : s[k] = ";"

FirstSeparator(s) ==
    CHOOSE k \in 1..Len(s) : s[k] = ";" /\ \A j \in 1..(k - 1) : s[j] # ";"

\* con.execute(sql).df(): the statements of the text run in order, each one
\* committed; the outcome is the rows of the last one or the message of the
\* first exception raised.
RECURSIVE Engine(_, _)
Engine(tbl, s) ==
    IF HasSeparator(s)
    THEN LET k == FirstSeparator(s)
             first == Statement(tbl, SubSeq(s, 1, k - 1))
         IN  IF first.ok
             THEN Engine(first.table, SubSeq(s, k + 1, Len(s)))
             ELSE first
    ELSE Statement(tbl, s)

----------------------------------------------------------------------------
(* Records of the outbound calls and of the display *)

NoPrompt ==
    [template |-> "", question |-> "", sql |-> <<>>, error |-> <<>>,
     columns |-> <<>>]

\* llm.invoke(prompt) returned `content`
ModelReturned(prompt, content) ==
    [kind |-> "model", prompt |-> prompt, sql |-> <<>>, ok |-> TRUE,
     content |-> content, rows |-> <<>>, error |-> <<>>]

\* llm.invoke(prompt) raised an exception with message `msg`
ModelRaised(prompt, msg) ==
    [kind |-> "model", prompt |-> prompt, sql |-> <<>>, ok |-> FALSE,
     content |-> <<>>, rows |-> <<>>, error |-> msg]

\* con.execute(s) with outcome `out`
Executed(s, out) ==
    [kind |-> "execute", prompt |-> NoPrompt, sql |-> s, ok |-> out.ok,
     content |-> <<>>, rows |-> out.rows, error |-> out.error]

Blank == [sql |-> <<>>, result |-> <<>>, error |-> <<>>]

\* variant: the handler displays its own `sql` (the first candidate)
ShowResultFirstCandidate(result, final_sql) ==
    [sql |-> <<CleanResponse(calls[1].content)>>, result |-> <<result>>,
     error |-> <<>>]

\* lines 134-138: st.code(final_sql), st.dataframe(result)
ShowResult(result, final_sql) ==
    [sql |-> <<final_sql>>, result |-> <<result>>, error |-> <<>>]

\* variant: the failure message is shown next to the last candidate
ShowErrorWithSql(exc) ==
    [sql |-> <<sql>>, result |-> <<>>, error |-> <<FailureMessage(exc)>>]

\* lines 140-141: st.error(f"... {e}")
ShowError(exc) ==
    [sql |-> <<>>, result |-> <<>>, error |-> <<FailureMessage(exc)>>]

ModelException(msg) == [type |-> "model", msg |-> msg]

EngineException(msg) == [type |-> "engine", msg |-> msg]

\* `result, final_sql = None` when execute_with_retry falls out of its loop
UnpackError ==
    [type |-> "TypeError",
     msg |-> <<"cannot unpack non-iterable NoneType object">>]

\* variant: range(retries) in line 105
InRangeShort(a, r) == 0 <= a /\ a < r

\* attempt in range(retries + 1)
InRange(a, r) == 0 <= a /\ a < r + 1

\* variant: lines 109-110 missing
IsLastAttemptNever(a, r) == FALSE

\* variant: off by one in the comparison of line 109
IsLastAttemptOffByOne(a, r) == a = r + 1

\* line 109: attempt == retries
IsLastAttempt(a, r) == a = r

Quiescent == {"Idle", "Succeeded", "Failed"}

----------------------------------------------------------------------------
(* State after construction: the page is open, no file uploaded *)

Init ==
    /\ uploaded = <<>>
    /\ previous = <<>>
    /\ columns = <<>>
    /\ table = NoTable
    /\ pc = "Idle"
    /\ question = ""
    /\ sql = <<>>
    /\ attempt = 0
    /\ retries = DefaultRetries
    /\ e = <<>>
    /\ calls = <<>>
    /\ spent = 0
    /\ ui = Blank

\* number of executions in history h that raised
FailedExecutions(h) ==
    Cardinality({i \in DOMAIN h : h[i].kind = "execute" /\ ~h[i].ok})

\* A script run starts with fresh locals and an empty page.
FreshRun ==
    /\ sql' = <<>>
    /\ attempt' = 0
    /\ retries' = DefaultRetries
    /\ e' = <<>>
    /\ calls' = <<>>
    /\ spent' = IF pc = "Idle" THEN spent ELSE FailedExecutions(calls)
    /\ ui' = Blank

\* lines 29-43 of a script run whose uploader holds `df`
LoadDataset(df) ==
    /\ table' = CreateTable(df)
    /\ columns' = ListColumns(df)

\* The user picks another CSV file; the script reruns, the button is not
\* pressed.
Upload(df) ==
    /\ pc \in Quiescent
    /\ uploaded # <<df>>
    /\ uploaded' = <<df>>
    /\ previous' = uploaded
    /\ LoadDataset(df)
    /\ pc' = "Idle"
    /\ FreshRun
    /\ UNCHANGED question

\* The user removes the file; the script reruns into the else branch (143).
RemoveFile ==
    /\ pc \in Quiescent
    /\ uploaded # <<>>
    /\ uploaded' = <<>>
    /\ previous' = uploaded
    /\ table' = NoTable
    /\ columns' = <<>>
    /\ pc' = "Idle"
    /\ FreshRun
    /\ UNCHANGED question

\* variant: the question input and the button sit outside `if uploaded_file`
RunQueryWithoutFile(q) ==
    /\ pc \in Quiescent
    /\ IF uploaded # <<>>
       THEN LoadDataset(uploaded[1])
       ELSE UNCHANGED <<table, columns>>
    /\ question' = q
    /\ pc' = IF q # "" THEN "Generating" ELSE "Idle"
    /\ FreshRun
    /\ UNCHANGED <<uploaded, previous>>

\* The user presses Run Query with `q` in the text input; the script reruns
\* (lines 29-43 again) and line 129 decides whether a cycle starts.
RunQuery(q) ==
    /\ pc \in Quiescent
    /\ uploaded # <<>>
    /\ LoadDataset(uploaded[1])
    /\ question' = q
    /\ pc' = IF q # "" THEN "Generating" ELSE "Idle"
    /\ FreshRun
    /\ UNCHANGED <<uploaded, previous>>

\* execute_with_retry left its loop without returning: the handler's
\* unpacking of None raises, line 140 catches it.
FallOut ==
    /\ pc' = "Failed"
    /\ ui' = ShowError(UnpackError)

\* generate_sql returns and execute_with_retry(sql, retries=r) is entered
\* with its counter at `first`.
EnterRetryLoop(content, r, first) ==
    /\ pc = "Generating"
    /\ calls' = Append(calls,
                   ModelReturned(SqlPromptFormat(question, Join(columns)),
                                 content))
    /\ sql' = CleanResponse(content)
    /\ retries' = r
    /\ attempt' = first
    /\ IF InRange(first, r)
       THEN pc' = "Executing" /\ UNCHANGED ui
       ELSE FallOut
    /\ UNCHANGED <<uploaded, previous, spent, columns, table, question, e>>

\* variant: the attempt counter lives in the session and is not reset
GenerateReturnKeepsCounter(content) ==
    EnterRetryLoop(content, DefaultRetries,
                   IF spent > DefaultRetries THEN DefaultRetries ELSE spent)

\* line 131: generate_sql returns; line 132 calls execute_with_retry(sql),
\* whose loop starts at range(retries + 1)[0] = 0.
GenerateReturn(content) == EnterRetryLoop(content, DefaultRetries, 0)

\* variant: generate_sql swallows the exception and returns an empty string
GenerateRaiseSwallowed(msg) ==
    /\ pc = "Generating"
    /\ calls' = Append(calls,
                   ModelRaised(SqlPromptFormat(question, Join(columns)), msg))
    /\ sql' = <<>>
    /\ pc' = "Executing"
    /\ UNCHANGED <<uploaded, previous, spent, columns, table, question, attempt,
                   retries, e, ui>>

\* line 131: llm.invoke raises inside generate_sql; line 140 catches it.
GenerateRaise(msg) ==
    /\ pc = "Generating"
    /\ calls' = Append(calls,
                   ModelRaised(SqlPromptFormat(question, Join(columns)), msg))
    /\ pc' = "Failed"
    /\ ui' = ShowError(ModelException(msg))
    /\ UNCHANGED <<uploaded, previous, spent, columns, table, question, sql,
                   attempt, retries, e>>

\* variant: the result is not returned from inside the loop; a successful
\* execution before the last attempt goes on to the fix call
ExecuteReturnThenFix ==
    /\ pc = "Executing"
    /\ Engine(table, sql).ok
    /\ calls' = Append(calls, Executed(sql, Engine(table, sql)))
    /\ table' = Engine(table, sql).table
    /\ IF IsLastAttempt(attempt, retries)
       THEN /\ ui' = ShowResult(Engine(table, sql).rows, sql)
            /\ pc' = "Succeeded"
            /\ UNCHANGED e
       ELSE /\ e' = <<EngineException(<<>>)>>
            /\ pc' = "Fixing"
            /\ UNCHANGED ui
    /\ UNCHANGED <<uploaded, previous, spent, columns, question, sql,
                   attempt, retries>>

\* line 107: con.execute(sql).df() returns; lines 132-138 display.
ExecuteReturn ==
    /\ pc = "Executing"
    /\ Engine(table, sql).ok
    /\ calls' = Append(calls, Executed(sql, Engine(table, sql)))
    /\ table' = Engine(table, sql).table
    /\ ui' = ShowResult(Engine(table, sql).rows, sql)
    /\ pc' = "Succeeded"
    /\ UNCHANGED <<uploaded, previous, spent, columns, question, sql,
                   attempt, retries, e>>

\* variant: the error of the first failed execution is kept and raised
ExecuteRaiseLastFirstError ==
    /\ pc = "Executing"
    /\ ~Engine(table, sql).ok
    /\ IsLastAttempt(attempt, retries)
    /\ calls' = Append(calls, Executed(sql, Engine(table, sql)))
    /\ table' = Engine(table, sql).table
    /\ ui' = ShowError(EngineException(calls[2].error))
    /\ pc' = "Failed"
    /\ UNCHANGED <<uploaded, previous, spent, columns, question, sql,
                   attempt, retries, e>>

\* variant: the last failure is neither raised nor fixed; the handler waits
ExecuteRaiseLastBlocks ==
    /\ pc = "Executing"
    /\ ~Engine(table, sql).ok
    /\ IsLastAttempt(attempt, retries)
    /\ UNCHANGED vars

\* lines 108-110: the last permitted execution raises; `raise e`, line 140.
ExecuteRaiseLast ==
    /\ pc = "Executing"
    /\ ~Engine(table, sql).ok
    /\ IsLastAttempt(attempt, retries)
    /\ calls' = Append(calls, Executed(sql, Engine(table, sql)))
    /\ table' = Engine(table, sql).table
    /\ ui' = ShowError(EngineException(Engine(table, sql).error))
    /\ pc' = "Failed"
    /\ UNCHANGED <<uploaded, previous, spent, columns, question, sql,
                   attempt, retries, e>>

\* variant: the failed candidate is retried without a fix call
ExecuteRaiseRetryNoFix ==
    /\ pc = "Executing"
    /\ ~Engine(table, sql).ok
    /\ ~IsLastAttempt(attempt, retries)
    /\ calls' = Append(calls, Executed(sql, Engine(table, sql)))
    /\ table' = Engine(table, sql).table
    /\ attempt' = attempt + 1
    /\ UNCHANGED <<uploaded, previous, spent, columns, pc, question, sql,
                   retries, e, ui>>

\* lines 108-109: an earlier execution raises; go on to the fix call.
ExecuteRaiseRetry ==
    /\ pc = "Executing"
    /\ ~Engine(table, sql).ok
    /\ ~IsLastAttempt(attempt, retries)
    /\ calls' = Append(calls, Executed(sql, Engine(table, sql)))
    /\ table' = Engine(table, sql).table
    /\ e' = <<EngineException(Engine(table, sql).error)>>
    /\ pc' = "Fixing"
    /\ UNCHANGED <<uploaded, previous, spent, columns, question, sql,
                   attempt, retries, ui>>

\* lines 112-118: the fix call returns; the loop takes its next iteration.
FixReturn(content) ==
    /\ pc = "Fixing"
    /\ calls' = Append(calls,
                   ModelReturned(BuildFixPrompt(sql, e[1], columns), content))
    /\ sql' = CleanResponse(content)
    /\ e' = <<>>
    /\ attempt' = attempt + 1
    /\ IF InRange(attempt + 1, retries)
       THEN pc' = "Executing" /\ UNCHANGED ui
       ELSE FallOut
    /\ UNCHANGED <<uploaded, previous, spent, columns, table, question, retries>>

\* variant: the handler reports the execution error that led to the fix
FixRaiseShowsExecutionError(msg) ==
    /\ pc = "Fixing"
    /\ calls' = Append(calls,
                   ModelRaised(BuildFixPrompt(sql, e[1], columns), msg))
    /\ ui' = ShowError(e[1])
    /\ pc' = "Failed"
    /\ e' = <<>>
    /\ UNCHANGED <<uploaded, previous, spent, columns, table, question, sql,
                   attempt, retries>>

\* lines 112-118: llm.invoke raises inside the except block; line 140.
FixRaise(msg) ==
    /\ pc = "Fixing"
    /\ calls' = Append(calls,
                   ModelRaised(BuildFixPrompt(sql, e[1], columns), msg))
    /\ ui' = ShowError(ModelException(msg))
    /\ pc' = "Failed"
    /\ e' = <<>>
    /\ UNCHANGED <<uploaded, previous, spent, columns, table, question, sql,
                   attempt, retries>>

Next ==
    \/ \E df \in Datasets : Upload(df)
    \/ RemoveFile
    \/ \E q \in Questions : RunQuery(q)
    \/ \E content \in ModelResponses : GenerateReturn(content)
    \/ \E msg \in ModelErrors : GenerateRaise(msg)
    \/ ExecuteReturn
    \/ ExecuteRaiseLast
    \/ ExecuteRaiseRetry
    \/ \E content \in ModelResponses : FixReturn(content)
    \/ \E msg \in ModelErrors : FixRaise(msg)

\* execute_with_retry called with retries = r
GenerateReturnWith(content, r) == EnterRetryLoop(content, r, 0)

\* Next with execute_with_retry called with any retries value in 0..MaxRetries
NextAnyRetries ==
    \/ \E df \in Datasets : Upload(df)
    \/ RemoveFile
    \/ \E q \in Questions : RunQuery(q)
    \/ \E content \in ModelResponses, r \in 0..MaxRetries :
          GenerateReturnWith(content, r)
    \/ \E msg \in ModelErrors : GenerateRaise(msg)
    \/ ExecuteReturn
    \/ ExecuteRaiseLast
    \/ ExecuteRaiseRetry
    \/ \E content \in ModelResponses : FixReturn(content)
    \/ \E msg \in ModelErrors : FixRaise(msg)

SpecAnyRetries == Init /\ [][NextAnyRetries]_vars

\* the steps of a running cycle: the return of a model call or of an
\* execution
CycleStep ==
    \/ \E content \in ModelResponses : GenerateReturn(content)
    \/ \E msg \in ModelErrors : GenerateRaise(msg)
    \/ ExecuteReturn
    \/ ExecuteRaiseLast
    \/ ExecuteRaiseRetry
    \/ \E content \in ModelResponses : FixReturn(content)
    \/ \E msg \in ModelErrors : FixRaise(msg)

Spec == Init /\ [][Next]_vars

\* Every model call and every execution returns: the handler is synchronous
\* straight-line code, so a running cycle always takes its next step.
LiveSpec == Init /\ [][Next]_vars /\ WF_vars(CycleStep)

----------------------------------------------------------------------------
(* Observations on the call history of the current cycle *)

IsExecute(i) == calls[i].kind = "execute"

IsModelCall(i) == calls[i].kind = "model"

IsFixCall(i) == IsModelCall(i) /\ calls[i].prompt.template = "fix_prompt"

IsGenerateCall(i) == IsModelCall(i) /\ calls[i].prompt.template = "sql_prompt"

Executions == {i \in DOMAIN calls : IsExecute(i)}

ModelCalls == {i \in DOMAIN calls : IsModelCall(i)}

\* 1-based number of the execution attempt recorded at position i
AttemptNo(i) == Cardinality({j \in Executions : j <= i})

FailedExecution(i) == IsExecute(i) /\ ~calls[i].ok

Surfaced(msg) == <<(<<FailurePrefix>> \o msg)>>

----------------------------------------------------------------------------
(* C1: with max retries = 2 a cycle executes at most 3 candidates; the     *)
(* third failed execution leaves the cycle Failed and is the last outbound *)
(* call of the cycle (no fourth execution, no further model call).         *)
C1_AtMostThreeExecutions ==
    /\ Cardinality(Executions) <= 3
    /\ \A i \in DOMAIN calls :
         (FailedExecution(i) /\ AttemptNo(i) = 3)
            => (pc = "Failed" /\ i = Len(calls))

C1_Witness ==
    /\ pc = "Failed"
    /\ Cardinality(Executions) = 3
    /\ \A i \in Executions : ~calls[i].ok

(* C2: every fix prompt carries exactly the candidate of the execution     *)
(* that failed immediately before it and exactly that execution's error    *)
(* message.                                                                *)
C2_FixPromptExact ==
    \A i \in DOMAIN calls :
        IsFixCall(i) =>
            /\ i > 1
            /\ FailedExecution(i - 1)
            /\ calls[i].prompt.sql = calls[i - 1].sql
            /\ calls[i].prompt.error = calls[i - 1].error

\* two fix prompts in one cycle, for different candidates and errors
C2_Witness ==
    /\ Len(calls) >= 5
    /\ IsFixCall(3)
    /\ IsFixCall(5)
    /\ calls[3].prompt.sql # calls[5].prompt.sql
    /\ calls[3].prompt.error # calls[5].prompt.error
    /\ Len(calls[5].prompt.error) > 1

(* C3: when the first candidate executes successfully the cycle is         *)
(* Succeeded with exactly one model call (the generation) and one          *)
(* execution; no fix prompt is built.                                      *)
C3_FirstSuccessNoFix ==
    (Len(calls) >= 2 /\ IsExecute(2) /\ calls[2].ok) =>
        /\ pc = "Succeeded"
        /\ Len(calls) = 2
        /\ IsGenerateCall(1)
        /\ \A i \in DOMAIN calls : ~IsFixCall(i)

C3_Witness ==
    /\ pc = "Succeeded"
    /\ Len(calls) = 2
    /\ calls[2].ok
    /\ calls[1].content # calls[2].sql

(* C4: the calls of a cycle alternate model call, execution, starting with *)
(* the generation call; a failed attempt k <= max retries is followed by   *)
(* exactly one fix call (pending while the cycle is Fixing) and that call  *)
(* by nothing but the next execution.                                      *)
C4_OneFixBetweenAttempts ==
    /\ \A i \in DOMAIN calls :
         /\ IsModelCall(i) <=> (i % 2 = 1)
         /\ IsGenerateCall(i) <=> (i = 1)
    /\ \A i \in DOMAIN calls :
         (FailedExecution(i) /\ AttemptNo(i) <= DefaultRetries) =>
            \/ i = Len(calls) /\ pc = "Fixing"
            \/ /\ i < Len(calls)
               /\ IsFixCall(i + 1)
               /\ (i + 2 <= Len(calls) => IsExecute(i + 2))

C4_Witness ==
    /\ Len(calls) = 6
    /\ FailedExecution(2)
    /\ IsFixCall(3)
    /\ FailedExecution(4)
    /\ IsFixCall(5)
    /\ IsExecute(6)

(* C5: when all max retries + 1 executions failed the cycle is Failed and  *)
(* the message shown is built from the error of the last execution.        *)
C5_LastErrorSurfaced ==
    (Cardinality(Executions) = DefaultRetries + 1
        /\ \A i \in Executions : ~calls[i].ok) =>
        /\ pc = "Failed"
        /\ IsExecute(Len(calls))
        /\ ui.error = Surfaced(calls[Len(calls)].error)

\* exhausted, and the last error differs from every earlier one
C5_Witness ==
    /\ pc = "Failed"
    /\ Cardinality(Executions) = DefaultRetries + 1
    /\ \A i \in Executions : ~calls[i].ok
    /\ \A i \in Executions :
         i < Len(calls) => calls[i].error # calls[Len(calls)].error

(* C6: a failing generation call ends the cycle at once: Failed with that  *)
(* error shown, nothing executed, no fix call.                             *)
C6_GenerationFailureStops ==
    (Len(calls) >= 1 /\ IsModelCall(1) /\ ~calls[1].ok) =>
        /\ pc = "Failed"
        /\ Len(calls) = 1
        /\ Executions = {}
        /\ ui.error = Surfaced(calls[1].error)

C6_Witness ==
    /\ Len(calls) = 1
    /\ IsGenerateCall(1)
    /\ ~calls[1].ok
    /\ pc = "Failed"

(* C7: a failing fix call is not retried: it is the last outbound call of  *)
(* the cycle, the cycle is Failed, and the message shown is built from the *)
(* model call's error, not from the execution error that led to the fix.   *)
C7_FixFailureNotRetried ==
    \A i \in DOMAIN calls :
        (IsFixCall(i) /\ ~calls[i].ok) =>
            /\ i = Len(calls)
            /\ pc = "Failed"
            /\ ui.error = Surfaced(calls[i].error)
            /\ ui.error # Surfaced(calls[i - 1].error)

\* the fix call after the first failed execution raises: retries remain
C7_Witness ==
    /\ Len(calls) = 3
    /\ IsFixCall(3)
    /\ ~calls[3].ok
    /\ attempt < retries
    /\ pc = "Failed"

(* C8: a Succeeded cycle shows as final SQL the candidate of its last,     *)
(* successful execution and as result the rows of that execution.          *)
C8_FinalSqlIsSucceeded ==
    pc = "Succeeded" =>
        /\ calls # <<>>
        /\ IsExecute(Len(calls))
        /\ calls[Len(calls)].ok
        /\ ui.sql = <<calls[Len(calls)].sql>>
        /\ ui.result = <<calls[Len(calls)].rows>>
        /\ \A i \in Executions : i < Len(calls) => ~calls[i].ok

\* success after a failed, different candidate
C8_Witness ==
    /\ pc = "Succeeded"
    /\ Len(calls) >= 4
    /\ FailedExecution(2)
    /\ <<calls[2].sql>> # ui.sql

(* C9: every prompt of the cycle carries the comma-joined ordered column   *)
(* list of the dataset the uploader currently holds.                       *)
C9_SchemaFresh ==
    \A i \in DOMAIN calls :
        IsModelCall(i) =>
            /\ uploaded # <<>>
            /\ calls[i].prompt.columns = Join(uploaded[1].columns)

\* generation and fix prompt built after a dataset of another schema was
\* replaced
C9_Witness ==
    /\ previous # <<>>
    /\ uploaded # <<>>
    /\ previous[1].columns # uploaded[1].columns
    /\ Len(calls) >= 3
    /\ IsGenerateCall(1)
    /\ IsFixCall(3)

(* C10: a finished cycle shows either final SQL and result table and no    *)
(* failure message (Succeeded), or a failure message and neither SQL nor   *)
(* table (Failed).                                                         *)
C10_ExactlyOneOutcome ==
    /\ pc = "Succeeded" =>
         (Len(ui.sql) = 1 /\ Len(ui.result) = 1 /\ ui.error = <<>>)
    /\ pc = "Failed" =>
         (ui.sql = <<>> /\ ui.result = <<>> /\ Len(ui.error) = 1)
    /\ pc \notin {"Succeeded", "Failed"} => ui = Blank

C10_Witness ==
    /\ pc = "Failed"
    /\ Len(calls) >= 4
    /\ Len(ui.error) = 1

----------------------------------------------------------------------------
\* every permitted execution of the cycle was made and failed
Exhausted ==
    /\ Cardinality(Executions) = DefaultRetries + 1
    /\ \A i \in Executions : ~calls[i].ok

\* text s occurs in text t
Occurs(s, t) ==
    \E k \in 0..(Len(t) - Len(s)) : SubSeq(t, k + 1, k + Len(s)) = s

\* the display carries candidate s: as the displayed SQL or inside the
\* failure message
DisplayCarriesSql(s) ==
    \/ ui.sql = <<s>>
    \/ ui.error # <<>> /\ Occurs(s, ui.error[1])

(* C11 as stated: after the retry bound is reached the reported failure    *)
(* carries the last SQL candidate attempted and the last execution error.  *)
C11_CarriesSqlAndError ==
    Exhausted =>
        /\ DisplayCarriesSql(calls[Len(calls)].sql)
        /\ ui.error # <<>>
        /\ Occurs(calls[Len(calls)].error, ui.error[1])

(* C11 amended: after the retry bound is reached the display is the fixed  *)
(* prefix followed by exactly the last execution error; no SQL and no      *)
(* result are displayed with it.                                           *)
C11_CarriesLastErrorOnly ==
    Exhausted =>
        /\ ui.error = <<(<<FailurePrefix>> \o calls[Len(calls)].error)>>
        /\ ui.sql = <<>>
        /\ ui.result = <<>>

\* exhausted on a candidate that the engine's message does not quote
C11_Witness ==
    /\ Exhausted
    /\ pc = "Failed"
    /\ ~DisplayCarriesSql(calls[Len(calls)].sql)
    /\ Occurs(calls[Len(calls)].error, ui.error[1])

----------------------------------------------------------------------------
(* C12 as stated: no step of a query-answering cycle changes the rows or   *)
(* the schema of the loaded table; only a load does.                       *)
C12_DatasetImmutable == [][pc \notin Quiescent => table' = table]_vars

----------------------------------------------------------------------------
(* C13: while no dataset is loaded nothing of a cycle happens (no prompt,  *)
(* no model call, no execution, the column list is unbound); whenever a    *)
(* cycle is running or has made a call, a dataset is loaded and `columns`  *)
(* is its column list.                                                     *)
C13_NoCycleBeforeLoad ==
    /\ uploaded = <<>> =>
         (pc = "Idle" /\ calls = <<>> /\ columns = <<>> /\ ui = Blank)
    /\ (pc \notin Quiescent \/ calls # <<>>) =>
         (uploaded # <<>> /\ columns = uploaded[1].columns)

\* a question was typed and a dataset was loaded earlier, the file is gone
C13_Witness ==
    /\ uploaded = <<>>
    /\ previous # <<>>
    /\ question # ""
    /\ calls = <<>>

----------------------------------------------------------------------------
(* C14: if every model call and every execution returns, a started cycle   *)
(* eventually reaches Succeeded or Failed.                                 *)
C14_CycleTerminates ==
    (pc \in {"Generating", "Executing", "Fixing"})
        ~> (pc \in {"Succeeded", "Failed"})

\* the model answered with the same failing candidate every time
C14_Witness ==
    /\ pc = "Failed"
    /\ Len(calls) = 6
    /\ FailedExecution(6)
    /\ calls[2].sql = calls[4].sql
    /\ calls[4].sql = calls[6].sql

----------------------------------------------------------------------------
(* C15: the attempt counter belongs to one cycle: a cycle starts with it   *)
(* at zero, while executing it equals the number of executions this cycle  *)
(* has made, and a cycle gives up on a failed execution only after its own *)
(* max retries + 1 executions, whatever earlier cycles spent.              *)
C15_RetryStatePerCycle ==
    /\ pc = "Generating" => (attempt = 0 /\ calls = <<>>)
    /\ pc = "Executing" => attempt = Cardinality(Executions)
    /\ (pc = "Failed" /\ calls # <<>> /\ FailedExecution(Len(calls))) =>
         Cardinality(Executions) = DefaultRetries + 1

\* a cycle after an exhausted cycle makes its third execution
C15_Witness ==
    /\ spent = DefaultRetries + 1
    /\ Cardinality(Executions) = DefaultRetries + 1
    /\ pc \in {"Succeeded", "Failed"}

----------------------------------------------------------------------------
(* C16: right after a load (the script has run lines 29-43 and no          *)
(* candidate has been executed since) the table `data` has exactly the     *)
(* columns and the rows of the dataset the uploader holds.                 *)
C16_LoadReplaces ==
    (uploaded # <<>> /\ pc \in {"Idle", "Generating"}) =>
        /\ table.columns = uploaded[1].columns
        /\ table.rows = uploaded[1].rows

\* loaded over a dataset with other columns and rows
C16_Witness ==
    /\ uploaded # <<>>
    /\ previous # <<>>
    /\ pc = "Idle"
    /\ previous[1].columns # uploaded[1].columns
    /\ previous[1].rows # uploaded[1].rows
    /\ table.rows = uploaded[1].rows

----------------------------------------------------------------------------
\* s is `content` without its leading and trailing whitespace
IsTrimOf(s, content) ==
    \E a, b \in 0..Len(content) :
        /\ a + b <= Len(content)
        /\ s = SubSeq(content, a + 1, Len(content) - b)
        /\ \A j \in 1..a : content[j] \in Whitespace
        /\ \A j \in (Len(content) - b + 1)..Len(content) :
             content[j] \in Whitespace
        /\ s # <<>> => (s[1] \notin Whitespace /\ s[Len(s)] \notin Whitespace)

(* C17 as stated: the candidate executed after a fix call is the model's   *)
(* response to that fix prompt, and the candidate that just failed is      *)
(* executed again only if the model returned that same text.               *)
C17_NextCandidateIsResponse ==
    \A i \in DOMAIN calls :
        (IsFixCall(i) /\ calls[i].ok /\ i < Len(calls)) =>
            /\ calls[i + 1].sql = calls[i].content
            /\ calls[i + 1].sql = calls[i - 1].sql =>
                 calls[i].content = calls[i - 1].sql

(* C17 amended: the candidate executed after a fix call is the model's     *)
(* response to that fix prompt without its leading and trailing            *)
(* whitespace; the candidate that just failed is executed again only if    *)
(* the response so trimmed equals it.                                      *)
C17_NextCandidateIsTrimmedResponse ==
    \A i \in DOMAIN calls :
        (IsFixCall(i) /\ calls[i].ok) =>
            /\ (i = Len(calls) /\ pc = "Executing") =>
                 IsTrimOf(sql, calls[i].content)
            /\ i < Len(calls) =>
                 /\ IsExecute(i + 1)
                 /\ IsTrimOf(calls[i + 1].sql, calls[i].content)
                 /\ calls[i + 1].sql = calls[i - 1].sql =>
                      IsTrimOf(calls[i - 1].sql, calls[i].content)

\* the failed candidate is executed again after a response that differs
\* from it by surrounding whitespace
C17_Witness ==
    /\ Len(calls) >= 4
    /\ IsFixCall(3)
    /\ calls[3].ok
    /\ IsExecute(4)
    /\ calls[4].sql # calls[3].content
    /\ calls[4].sql = calls[2].sql

----------------------------------------------------------------------------
(* C18: a cycle makes at most 1 + max retries model calls, and after the   *)
(* failure of the last permitted execution no fix call is made or pending. *)
C18_ModelCallsBounded ==
    /\ Cardinality(ModelCalls) <= 1 + DefaultRetries
    /\ \A i \in DOMAIN calls :
         (FailedExecution(i) /\ AttemptNo(i) = DefaultRetries + 1) =>
            /\ pc # "Fixing"
            /\ \A j \in DOMAIN calls : j > i => ~IsModelCall(j)

\* one generation and two fix calls, all answered, then the last failure
C18_Witness ==
    /\ Cardinality(ModelCalls) = 1 + DefaultRetries
    /\ \A i \in ModelCalls : calls[i].ok
    /\ FailedExecution(Len(calls))
    /\ ui.error # <<>>

(* C19: for every retries value r in 0..MaxRetries a cycle ends with a     *)
(* returned (rows, sql) pair or with the error of its last call raised,    *)
(* never with the loop left without a result; a cycle ended by a failed    *)
(* execution made exactly r + 1 executions and r fix calls.                *)
C19_ReturnsOrRaises ==
    /\ pc = "Succeeded" =>
         /\ calls # <<>>
         /\ IsExecute(Len(calls))
         /\ calls[Len(calls)].ok
         /\ ui.sql = <<calls[Len(calls)].sql>>
         /\ ui.result = <<calls[Len(calls)].rows>>
    /\ pc = "Failed" =>
         /\ calls # <<>>
         /\ ~calls[Len(calls)].ok
         /\ ui.error = Surfaced(calls[Len(calls)].error)
    /\ (pc = "Failed" /\ calls # <<>> /\ IsExecute(Len(calls))) =>
         /\ Cardinality(Executions) = retries + 1
         /\ Cardinality({i \in DOMAIN calls : IsFixCall(i)}) = retries

\* retries = 0: one failed execution, no fix call
C19_Witness ==
    /\ retries = 0
    /\ pc = "Failed"
    /\ Len(calls) = 2
    /\ FailedExecution(2)

====
